---- MODULE Spec2Model ----
(***************************************************************************)
(* diveops-deco-validate: one run of main() in                             *)
(* src/tools/diveops-deco-validate/src/main.rs.                            *)
(*                                                                         *)
(* Numbers.  The f64 inputs are modelled as exact fixed-point integers:    *)
(*   gas fractions o2, he        in hundredths      (21   is 0.21)         *)
(*   gradient factors gf_*       in thousandths     (305  is 0.305)        *)
(*   minutes (duration_min, ...) in 1/120 minute    (120  is 1 minute,     *)
(*                                                   1 is half a second)   *)
(*   depths                      in whole metres                           *)
(*   seconds, percents, NDL minutes are the integers of the code.          *)
(*                                                                         *)
(* The dive_deco crate (the tissue model, ceiling, NDL and deco scheduler) *)
(* is not part of the source tree: main() only calls it.  Its answers are  *)
(* drawn nondeterministically from small sets; its tissue state is the     *)
(* list of the steps that changed it.                                      *)
(***************************************************************************)
EXTENDS Integers, Sequences, FiniteSets

\* ---- bounds of the model ------------------------------------------------
MaxSegs == 2
MaxStages == 2

\* ---- program constants --------------------------------------------------
ExitStdin == 2
ExitJson == 3
ExitNoSegments == 4
ExitGasRange == 5
ExitGasSum == 6
ExitSerialize == 7
NdlCap == 999
U8Max == 255
\* stands for Minutes::MAX, the largest value the NDL query can return
MinutesMAX == 2147483647

\* ---- helpers --------------------------------------------------------------
SeqsUpTo(S, n) == UNION {[1..k -> S] : k \in 0..n}

\* f64::round of the rational n/d (d > 0): to nearest, halves away from zero
Round(n, d) ==
    IF n >= 0 THEN (2 * n + d) \div (2 * d)
              ELSE 0 - ((2 * (0 - n) + d) \div (2 * d))

\* `as u8` of a rounded float: saturating
AsU8(x) == IF x < 0 THEN 0 ELSE IF x > U8Max THEN U8Max ELSE x

\* `as usize` of a rounded float: saturating (the upper end is out of range here)
AsUsize(x) == IF x < 0 THEN 0 ELSE x

\* ---- inputs ---------------------------------------------------------------
Seg(d, t) == [depth_m |-> d, duration_min |-> t]

SegVals == {Seg(40, 3000), Seg(50, 0), Seg(5, 0), Seg(0 - 5, 61), Seg(10, 0 - 120)}

InputGas(o, h) == [o2 |-> o, he |-> h]

GasVals == {InputGas(21, 0), InputGas(50, 50), InputGas(60, 50),
            InputGas(0 - 10, 0), InputGas(21, 110), InputGas(21, 0 - 10)}

GfVals == {<<300, 700>>, <<305, 1000>>, <<0 - 5, 1500>>, <<2600, 700>>}

InputPayload(s, g, gf) ==
    [segments |-> s, gas |-> g, gf_low |-> gf[1], gf_high |-> gf[2]]

DefaultPayload == InputPayload(<<Seg(40, 3000)>>, InputGas(21, 0), <<300, 700>>)

Payloads ==
    {InputPayload(s, InputGas(21, 0), <<300, 700>>) : s \in SeqsUpTo(SegVals, MaxSegs)}
    \cup
    {InputPayload(s, g, gf) : s \in {<<>>, <<Seg(40, 3000)>>}, g \in GasVals, gf \in GfVals}

\* what the process is started with: the arguments and the bytes on stdin
Inputs ==
    {[kind |-> k, payload |-> DefaultPayload] : k \in {"version", "unreadable", "malformed"}}
    \cup
    {[kind |-> "json", payload |-> p] : p \in Payloads}

\* ---- main(): the pure parts -----------------------------------------------
SegmentsEmpty(p) == Len(p.segments) = 0

GasRangeInvalid_O2Only(p) == ~(0 <= p.gas.o2 /\ p.gas.o2 <= 100)

GasRangeInvalid(p) ==
    ~(0 <= p.gas.o2 /\ p.gas.o2 <= 100) \/ ~(0 <= p.gas.he /\ p.gas.he <= 100)

GasSumExceeds_AtLeast(p) == p.gas.o2 + p.gas.he >= 100

GasSumExceeds(p) == p.gas.o2 + p.gas.he > 100

RECURSIVE FoldMax(_, _)
FoldMax(s, acc) ==
    IF s = <<>> THEN acc
    ELSE FoldMax(Tail(s), IF Head(s).depth_m > acc THEN Head(s).depth_m ELSE acc)

MaxDepth(segs) == FoldMax(segs, 0)

RECURSIVE Runtime(_)
Runtime(segs) ==
    IF segs = <<>> THEN 0 ELSE Head(segs).duration_min + Runtime(Tail(segs))

GfPercent(gf) == AsU8(Round(gf, 10))

Seconds_Ceil(duration_min) == AsUsize(duration_min \div 2) + 1

Seconds(duration_min) == AsUsize(Round(duration_min, 2))

DecoRequired_AtLeast(c) == c >= 0

DecoRequired_Never(c) == FALSE

DecoRequired(c) == c > 0

CapNdl_None(n) == n

CapNdl(n) == IF n > NdlCap THEN NdlCap ELSE n

IsEmittedStop_AnyDuration(stage) == stage.stage_type = "DecoStop"

IsEmittedStop(stage) == stage.stage_type = "DecoStop" /\ stage.duration > 0

OutputStop(stage) == [depth_m |-> stage.start_depth, duration_min |-> stage.duration * 2]

RECURSIVE ExtractStops(_)
ExtractStops(stages) ==
    IF stages = <<>> THEN <<>>
    ELSE IF IsEmittedStop(Head(stages))
         THEN <<OutputStop(Head(stages))>> \o ExtractStops(Tail(stages))
         ELSE ExtractStops(Tail(stages))

TtsMin(tts) == tts * 2

\* ---- the dive_deco crate, as main() sees it -------------------------------
Call(op, a, b) == [op |-> op, a |-> a, b |-> b]

\* BuehlmannModel::step: a zero-second step leaves the tissues as they are
TissueStep(t, depth, seconds) ==
    IF seconds = 0 THEN t ELSE Append(t, <<depth, seconds>>)

CeilingVals == {0, 3}

NdlVals == {5, NdlCap, NdlCap + 1, MinutesMAX}

Stage(ty, d, s) == [stage_type |-> ty, start_depth |-> d, duration |-> s]

StageVals == {Stage("Ascent", 6, 20), Stage("DecoStop", 6, 60),
              Stage("DecoStop", 3, 90), Stage("DecoStop", 3, 0)}

RECURSIVE SumDuration(_)
SumDuration(stages) ==
    IF stages = <<>> THEN 0 ELSE Head(stages).duration + SumDuration(Tail(stages))

\* Deco { deco_stages, tts }; fault: the scheduler stopped at its iteration
\* bound, which the returned value does not show
DecoResults ==
    {[deco_stages |-> s, tts |-> SumDuration(s), fault |-> f] :
        s \in SeqsUpTo(StageVals, MaxStages), f \in BOOLEAN}

\* ---- state ------------------------------------------------------------------
VARIABLES
    pc,             \* position in main()
    input,          \* arguments and stdin of this run
    exit,           \* {} while running, {status} once the process has ended
    stdout,         \* <<>> or <<what was printed>>
    stderr,         \* <<>> or <<diagnostic>>
    max_depth_m, runtime_min, gf_low, gf_high,
    i,              \* index of the next segment of the loop
    calls,          \* the calls made into dive_deco, in order
    tissue,         \* the tissue state of `model`
    ceiling_m, deco_required,
    ndl,            \* what model.ndl() returned, 0 before the call
    ndl_min,
    deco_stages, tts, coreFault, stops

vars == <<pc, input, exit, stdout, stderr, max_depth_m, runtime_min, gf_low,
          gf_high, i, calls, tissue, ceiling_m, deco_required, ndl, ndl_min,
          deco_stages, tts, coreFault, stops>>

locals == <<max_depth_m, runtime_min, gf_low, gf_high, i, calls, tissue,
            ceiling_m, deco_required, ndl, ndl_min, deco_stages, tts, coreFault,
            stops>>

payload == input.payload

Init ==
    /\ input \in Inputs
    /\ pc = "args"
    /\ exit = {}
    /\ stdout = <<>>
    /\ stderr = <<>>
    /\ max_depth_m = 0
    /\ runtime_min = 0
    /\ gf_low = 0
    /\ gf_high = 0
    /\ i = 1
    /\ calls = <<>>
    /\ tissue = <<>>
    /\ ceiling_m = 0
    /\ deco_required = FALSE
    /\ ndl = 0
    /\ ndl_min = {}
    /\ deco_stages = <<>>
    /\ tts = 0
    /\ coreFault = FALSE
    /\ stops = <<>>

Fail(code, msg) ==
    /\ pc' = "done"
    /\ exit' = {code}
    /\ stderr' = <<msg>>
    /\ UNCHANGED <<input, stdout, locals>>

Goto(l) ==
    /\ pc' = l
    /\ UNCHANGED <<input, exit, stdout, stderr>>

\* ---- main(), step by step -----------------------------------------------
PrintVersion ==
    /\ pc = "args"
    /\ input.kind = "version"
    /\ pc' = "done"
    /\ stdout' = <<"0.1.0">>
    /\ exit' = {0}
    /\ UNCHANGED <<input, stderr, locals>>

NoVersionFlag ==
    /\ pc = "args"
    /\ input.kind # "version"
    /\ Goto("read")
    /\ UNCHANGED locals

ReadStdinFails ==
    /\ pc = "read"
    /\ input.kind = "unreadable"
    /\ Fail(ExitStdin, "failed to read stdin")

ReadStdin ==
    /\ pc = "read"
    /\ input.kind # "unreadable"
    /\ Goto("parse")
    /\ UNCHANGED locals

ParseFails ==
    /\ pc = "parse"
    /\ input.kind = "malformed"
    /\ Fail(ExitJson, "invalid json")

Parse ==
    /\ pc = "parse"
    /\ input.kind = "json"
    /\ Goto("validate")
    /\ UNCHANGED locals

RejectNoSegments ==
    /\ pc = "validate"
    /\ SegmentsEmpty(payload)
    /\ Fail(ExitNoSegments, "no segments")

RejectGasRange ==
    /\ pc = "validate"
    /\ ~SegmentsEmpty(payload)
    /\ GasRangeInvalid(payload)
    /\ Fail(ExitGasRange, "invalid gas fractions")

RejectGasSum ==
    /\ pc = "validate"
    /\ ~SegmentsEmpty(payload)
    /\ ~GasRangeInvalid(payload)
    /\ GasSumExceeds(payload)
    /\ Fail(ExitGasSum, "gas fractions exceed 1.0")

Accept ==
    /\ pc = "validate"
    /\ ~SegmentsEmpty(payload)
    /\ ~GasRangeInvalid(payload)
    /\ ~GasSumExceeds(payload)
    /\ Goto("metrics")
    /\ UNCHANGED locals

\* max_depth_m, runtime_min, the gradient factors, the model and the gas mix
Configure ==
    /\ pc = "metrics"
    /\ max_depth_m' = MaxDepth(payload.segments)
    /\ runtime_min' = Runtime(payload.segments)
    /\ gf_low' = GfPercent(payload.gf_low)
    /\ gf_high' = GfPercent(payload.gf_high)
    /\ calls' = <<Call("new", GfPercent(payload.gf_low), GfPercent(payload.gf_high)),
                  Call("gas", payload.gas.o2, payload.gas.he)>>
    /\ tissue' = <<>>
    /\ i' = 1
    /\ Goto("steps")
    /\ UNCHANGED <<ceiling_m, deco_required, ndl, ndl_min, deco_stages, tts,
                   coreFault, stops>>

StepSegment ==
    /\ pc = "steps"
    /\ i <= Len(payload.segments)
    /\ LET seg == payload.segments[i]
           seconds == Seconds(seg.duration_min)
       IN  /\ calls' = Append(calls, Call("step", seg.depth_m, seconds))
           /\ tissue' = TissueStep(tissue, seg.depth_m, seconds)
    /\ i' = i + 1
    /\ Goto("steps")
    /\ UNCHANGED <<max_depth_m, runtime_min, gf_low, gf_high, ceiling_m,
                   deco_required, ndl, ndl_min, deco_stages, tts, coreFault, stops>>

Ceiling ==
    /\ pc = "steps"
    /\ i > Len(payload.segments)
    /\ \E c \in CeilingVals :
          /\ ceiling_m' = c
          /\ deco_required' = DecoRequired(c)
    /\ calls' = Append(calls, Call("ceiling", 0, 0))
    /\ Goto("ndl")
    /\ UNCHANGED <<max_depth_m, runtime_min, gf_low, gf_high, i, tissue,
                   ndl, ndl_min, deco_stages, tts, coreFault, stops>>

NdlQuery ==
    /\ pc = "ndl"
    /\ ~deco_required
    /\ \E n \in NdlVals :
          /\ ndl' = n
          /\ ndl_min' = {CapNdl(n)}
    /\ calls' = Append(calls, Call("ndl", 0, 0))
    /\ Goto("deco")
    /\ UNCHANGED <<max_depth_m, runtime_min, gf_low, gf_high, i, tissue,
                   ceiling_m, deco_required, deco_stages, tts, coreFault, stops>>

NdlSkipped ==
    /\ pc = "ndl"
    /\ deco_required
    /\ ndl_min' = {}
    /\ ndl' = ndl
    /\ Goto("deco")
    /\ UNCHANGED <<max_depth_m, runtime_min, gf_low, gf_high, i, calls, tissue,
                   ceiling_m, deco_required, deco_stages, tts, coreFault, stops>>

\* model.deco, tts_min and the stop list
DecoAndStops ==
    /\ pc = "deco"
    /\ \E r \in DecoResults :
          /\ deco_stages' = r.deco_stages
          /\ tts' = r.tts
          /\ coreFault' = r.fault
          /\ stops' = ExtractStops(r.deco_stages)
    /\ calls' = Append(calls, Call("deco", 0, 0))
    /\ Goto("serialize")
    /\ UNCHANGED <<max_depth_m, runtime_min, gf_low, gf_high, i, tissue,
                   ceiling_m, deco_required, ndl, ndl_min>>

OutputPayload ==
    [gf_low |-> payload.gf_low, gf_high |-> payload.gf_high,
     ceiling_m |-> ceiling_m, tts_min |-> TtsMin(tts), ndl_min |-> ndl_min,
     deco_required |-> deco_required, stops |-> stops,
     max_depth_m |-> max_depth_m, runtime_min |-> runtime_min]

Serialize ==
    /\ pc = "serialize"
    /\ pc' = "done"
    /\ stdout' = <<OutputPayload>>
    /\ exit' = {0}
    /\ UNCHANGED <<input, stderr, locals>>

SerializeFails ==
    /\ pc = "serialize"
    /\ Fail(ExitSerialize, "failed to serialize output")

Next ==
    \/ PrintVersion
    \/ NoVersionFlag
    \/ ReadStdinFails
    \/ ReadStdin
    \/ ParseFails
    \/ Parse
    \/ RejectNoSegments
    \/ RejectGasRange
    \/ RejectGasSum
    \/ Accept
    \/ Configure
    \/ StepSegment
    \/ Ceiling
    \/ NdlQuery
    \/ NdlSkipped
    \/ DecoAndStops
    \/ Serialize
    \/ SerializeFails

Spec == Init /\ [][Next]_vars

\* ---- the claims ---------------------------------------------------------
Wrote == pc = "done" /\ exit = {0} /\ input.kind = "json"

out == stdout[1]

\* the validation rules as the interface states them
EmptyInput == input.kind = "json" /\ Len(payload.segments) = 0

BadRange ==
    /\ input.kind = "json"
    /\ \/ payload.gas.o2 < 0 \/ payload.gas.o2 > 100
       \/ payload.gas.he < 0 \/ payload.gas.he > 100

BadSum == input.kind = "json" /\ payload.gas.o2 + payload.gas.he > 100

InvalidInput == EmptyInput \/ BadRange \/ BadSum

\* the input as the interface describes it: depths and durations >= 0
WellFormed ==
    \A k \in 1..Len(payload.segments) :
        payload.segments[k].depth_m >= 0 /\ payload.segments[k].duration_min >= 0

RemoveAt(s, k) == SubSeq(s, 1, k - 1) \o SubSeq(s, k + 1, Len(s))

RECURSIVE TissueAfter(_, _)
TissueAfter(t, segs) ==
    IF segs = <<>> THEN t
    ELSE TissueAfter(TissueStep(t, Head(segs).depth_m, Seconds(Head(segs).duration_min)),
                     Tail(segs))

StepCalls(segs) ==
    [k \in 1..Len(segs) |-> Call("step", segs[k].depth_m, Seconds(segs[k].duration_min))]

Setup ==
    <<Call("new", GfPercent(payload.gf_low), GfPercent(payload.gf_high)),
      Call("gas", payload.gas.o2, payload.gas.he)>>

Loaded == pc \in {"ndl", "deco", "serialize"} \/ Wrote \/ (pc = "done" /\ exit = {ExitSerialize})

\* C1: in every run that writes an output payload, deco_required is true
\* exactly when ceiling_m > 0, and ndl_min is present exactly when
\* deco_required is false.
C1_Consistency ==
    Wrote =>
        /\ out.deco_required = (out.ceiling_m > 0)
        /\ (out.ndl_min # {}) = (~out.deco_required)

C1_Witness == Wrote /\ out.ceiling_m > 0 /\ out.deco_required /\ out.ndl_min = {}

\* C2: a run ends with exactly one exit status; stdin failure is 2, malformed
\* JSON 3, empty segment list 4, a gas fraction outside [0,1] 5, o2+he > 1 is
\* 6, serialization failure 7, the first applicable failure in this order
\* decides, and the status is 0 only when none of them occurred.
C2_ExitCodes ==
    /\ Cardinality(exit) <= 1
    /\ (exit # {}) = (pc = "done")
    /\ pc = "done" \/ ENABLED Next
    /\ pc = "done" => ~ENABLED Next
    /\ pc = "done" =>
        /\ (input.kind = "unreadable") = (exit = {2})
        /\ (input.kind = "malformed") = (exit = {3})
        /\ EmptyInput = (exit = {4})
        /\ (~EmptyInput /\ BadRange) = (exit = {5})
        /\ (~EmptyInput /\ ~BadRange /\ BadSum) = (exit = {6})
        /\ (stderr = <<"failed to serialize output">>) = (exit = {7})
        /\ exit = {7} => input.kind = "json" /\ ~InvalidInput /\ stdout = <<>>
        /\ exit = {0} => stderr = <<>> /\ (input.kind = "version" \/ ~InvalidInput)
        /\ exit \subseteq {0, 2, 3, 4, 5, 6, 7}

C2_Witness == pc = "done" /\ EmptyInput /\ BadRange /\ BadSum /\ exit = {4}

\* C3: an input with an empty segment list, a gas fraction outside [0,1] or
\* o2+he > 1 never reaches the core: no core call is made, the tissue state is
\* never touched and nothing is written to stdout.
C3_InvalidRejected ==
    InvalidInput => calls = <<>> /\ tissue = <<>> /\ stdout = <<>> /\ exit \subseteq {4, 5, 6}

C3_Witness ==
    /\ pc = "done"
    /\ ~EmptyInput
    /\ payload.gas.he < 0
    /\ exit = {5}
    /\ calls = <<>>
    /\ stdout = <<>>

\* C4: every segment applied to the tissue model (model.step) has
\* depth_m >= 0 and duration_min >= 0.
C4_SegmentsValidated ==
    \A k \in 1..Len(calls) :
        calls[k].op = "step" =>
            /\ calls[k].a >= 0
            /\ payload.segments[k - 2].depth_m >= 0
            /\ payload.segments[k - 2].duration_min >= 0

\* C5: for every input that reaches the core, gf_low and gf_high are
\* fractions in [0,1] and the percents handed to the core are in 0..100 and
\* equal the fraction times 100 rounded to the nearest integer.
C5_GfPercent ==
    calls # <<>> =>
        /\ 0 <= payload.gf_low /\ payload.gf_low <= 1000
        /\ 0 <= payload.gf_high /\ payload.gf_high <= 1000
        /\ calls[1].a \in 0..100 /\ calls[1].b \in 0..100
        /\ calls[1].a = Round(payload.gf_low, 10)
        /\ calls[1].b = Round(payload.gf_high, 10)

\* C6: the stops of the output are exactly the DecoStop stages of positive
\* duration, in the scheduler's order, each with the stage's depth and its
\* duration in seconds divided by 60.
C6_Keep(stage) == stage.stage_type = "DecoStop" /\ stage.duration > 0

C6_Stops ==
    Wrote =>
        LET kept == SelectSeq(deco_stages, C6_Keep)
        IN  /\ Len(out.stops) = Len(kept)
            /\ \A k \in 1..Len(kept) :
                  /\ out.stops[k].depth_m = kept[k].start_depth
                  /\ out.stops[k].duration_min * 60 = kept[k].duration * 120
                  /\ out.stops[k].duration_min > 0

C6_Witness ==
    /\ Wrote
    /\ Len(deco_stages) = 2
    /\ deco_stages[1].stage_type = "DecoStop" /\ deco_stages[1].duration = 0
    /\ Len(out.stops) = 1

\* C7: ndl_min, when present, is the core's NDL value if that is at most 999
\* and 999 otherwise, so it lies in 0..999.
C7_NdlCapped ==
    /\ ndl_min # {} => ndl_min = {IF ndl <= 999 THEN ndl ELSE 999} /\ ndl_min \subseteq 0..999
    /\ Wrote => out.ndl_min = ndl_min

C7_Witness == Wrote /\ ndl = MinutesMAX /\ out.ndl_min = {999}

C10_OneFollowUp ==
    (Wrote /\ WellFormed) =>
        calls = Setup \o StepCalls(payload.segments)
                \o <<Call("ceiling", 0, 0)>>
                \o (IF ceiling_m = 0 THEN <<Call("ndl", 0, 0)>> ELSE <<Call("deco", 0, 0)>>)

\* C10 as amended: every segment in input order, the ceiling, the NDL
\* estimator if and only if the ceiling is zero, and then the deco scheduler
\* in every successful run.
C10_CallChain ==
    Wrote =>
        calls = Setup \o StepCalls(payload.segments)
                \o <<Call("ceiling", 0, 0)>>
                \o (IF ceiling_m = 0 THEN <<Call("ndl", 0, 0)>> ELSE <<>>)
                \o <<Call("deco", 0, 0)>>

C10_Witness ==
    /\ Wrote
    /\ ceiling_m = 0
    /\ Len(payload.segments) = 2
    /\ calls[Len(calls)].op = "deco"
    /\ calls[Len(calls) - 1].op = "ndl"

====
